---- MODULE Spec2Model ----
\* Model of src/detection-worker.js: a Web Worker that loads an ONNX inference
\* session (INIT) and runs frames through it (PROCESS_FRAME).  Every inbound
\* message starts one run of the async handler self.onmessage; a run executes
\* synchronously up to its next await, so each action below is the code between
\* two awaits of one handler run.
EXTENDS Integers, Sequences, FiniteSets, TLC

\* ---------------------------------------------------------------- bounds
\* Number of inbound messages the host sends.
MaxMsgs == 3
\* Largest width and height of the images given to the tensor codec alone.
MaxWidth == 2
MaxHeight == 2

\* ------------------------------------------------------- values and inputs
HasField(r, f) == f \in DOMAIN r

\* JS null: the initial value of `session`.
null == 0

\* The models a modelPath can name, with the tensor names the session created
\* from each declares (session.inputNames, session.outputNames).  Two models
\* with different names: results of a run on one have no tensor under the
\* first output name of the other.
ModelPaths == {"A", "B"}

ModelInputNames(m) ==
    CASE m = "A" -> <<"images">>
      [] m = "B" -> <<"input">>

ModelOutputNames(m) ==
    CASE m = "A" -> <<"output0">>
      [] m = "B" -> <<"boxes", "scores">>

\* imageData payloads: RGBA values with width and height.  The container
\* `data` is the record of its kind (the constructor: "Array" for a plain
\* Array, else the typed array's name) and its items; Img1x1 arrives as the
\* Uint8ClampedArray of an ImageData, Img2x1 as a plain Array.
Img1x1 ==
    [data |-> [kind |-> "Uint8ClampedArray", items |-> <<255, 0, 51, 255>>],
     width |-> 1, height |-> 1]
Img2x1 ==
    [data |-> [kind |-> "Array", items |-> <<0, 0, 0, 0, 10, 20, 30, 40>>],
     width |-> 2, height |-> 1]
\* An image whose width is negative, and one whose size is beyond every
\* typed array (their buffers do not have the size they name).
ImgNeg ==
    [data |-> [kind |-> "Uint8ClampedArray", items |-> <<1, 2, 3, 4>>],
     width |-> -1, height |-> 1]
ImgHuge ==
    [data |-> [kind |-> "Uint8ClampedArray", items |-> <<1, 2, 3, 4>>],
     width |-> 65536, height |-> 65536]

\* The `data` payloads of PROCESS_FRAME messages the host sends; the third
\* lacks its imageData field, the image of the fourth has a negative width,
\* the image of the fifth is too large.
FrameData ==
    { [imageData |-> Img1x1, frameId |-> 1, timestamp |-> 100],
      [imageData |-> Img2x1, frameId |-> 2, timestamp |-> 200],
      [frameId |-> 3, timestamp |-> 300],
      [imageData |-> ImgNeg, frameId |-> 4, timestamp |-> 400],
      [imageData |-> ImgHuge, frameId |-> 5, timestamp |-> 500] }

\* e.data of the inbound messages.  A record without a field stands for a JS
\* object whose property is undefined.
InitMessages ==
    { [type |-> "INIT", data |-> [modelPath |-> m]] : m \in ModelPaths }
    \cup { [type |-> "INIT"] }

FrameMessages ==
    { [type |-> "PROCESS_FRAME", data |-> d] : d \in FrameData }
    \cup { [type |-> "PROCESS_FRAME"] }

OtherMessages == { [type |-> "PING"] }

\* The MessageEvents e; the event without a data field carries e.data = null.
Events ==
    { [data |-> m] : m \in InitMessages \cup FrameMessages \cup OtherMessages }
    \cup { [isTrusted |-> TRUE] }

\* ------------------------------------------------------------------ state
VARIABLES
    session,   \* the global `session`: null or the id of a created session
    sessions,  \* sessions[id]: the model path session id was created from
    inbox,     \* the events received so far; a handler run is named by its index
    pc,        \* pc[rid]: the await handler run rid is suspended at, or its end
    ctx,       \* ctx[rid]: the locals of run rid that live across its await
    outbox,    \* the messages posted with self.postMessage, in order
    trace,     \* history: for outbox[i], which run posted it, when, and the sessions it used
    codec      \* a call of preprocessImageData on its own: its argument and result

vars == <<session, sessions, inbox, pc, ctx, outbox, trace, codec>>

NoCtx == [none |-> TRUE]

\* The worker on its own makes no separate call of the codec.
NoCall == [pc |-> "idle"]

Init ==
    /\ session = null
    /\ sessions = << >>
    /\ inbox = << >>
    /\ pc = << >>
    /\ ctx = << >>
    /\ outbox = << >>
    /\ trace = << >>
    /\ codec = NoCall


\* ------------------------------------------------------------ Tensor codec
RECURSIVE GCD(_, _)
GCD(a, b) == IF b = 0 THEN a ELSE GCD(b, a % b)

\* A number as the reduced fraction <<numerator, denominator>>; NaN is 0/0.
\* (The Float32Array store rounds p/255.0 to single precision, which is
\* one-to-one on the 16-bit integers, so the fraction names the stored
\* float.)  The denominator is positive, the numerator carries the sign.
NaN == <<0, 0>>
Zero == <<0, 1>>
\* Mutant of Div255: the bytes are scaled by 256.
Div255_By256(p) == <<p \div GCD(p, 256), 256 \div GCD(p, 256)>>

Div255(p) == <<p \div GCD(p, 255), 255 \div GCD(p, 255)>>

\* Array.isArray(data), line 144: true of a plain Array only.
IsArray(data) == data.kind = "Array"

\* new Uint8ClampedArray(items), line 144: every item is clamped to 0..255.
Clamp(b) == IF b < 0 THEN 0 ELSE IF b > 255 THEN 255 ELSE b
Uint8ClampedArray(items) == [k \in 1..Len(items) |-> Clamp(items[k])]

\* pixelData of line 144, as the sequence of the values read from it: a
\* plain Array is converted and so clamped, any other container is read as
\* it is.
PixelData(data) ==
    IF IsArray(data) THEN Uint8ClampedArray(data.items) ELSE data.items

\* The two buffers the loop works on: pixelData, which is imageData.data
\* itself unless that was a plain Array, and the new float32Data.
\* pixelData[k] / 255.0 with the 0-based index k; reading past the end gives
\* undefined, and undefined / 255.0 is NaN.
Channel(heap, k) ==
    IF k < Len(heap.pixelData) THEN Div255(heap.pixelData[k + 1]) ELSE NaN

\* float32Data[k] = v with the 0-based index k; a typed array ignores a store
\* past its end.
Store(heap, k, v) ==
    IF k < Len(heap.float32Data)
    THEN [heap EXCEPT !.float32Data[k + 1] = v]
    ELSE heap

\* The loop of lines 152-159, from iteration i on.
RECURSIVE FillPlanes(_, _, _)
FillPlanes(heap, plane, i) ==
    IF 4 * i < Len(heap.pixelData)
    THEN LET r == Channel(heap, 4 * i)
             g == Channel(heap, 4 * i + 1)
             b == Channel(heap, 4 * i + 2)
             h1 == Store(heap, i, r)
             h2 == Store(h1, i + plane, g)
             h3 == Store(h2, i + 2 * plane, b)
         IN  FillPlanes(h3, plane, i + 1)
    ELSE heap

\* The largest width * height whose 3 * width * height is a typed array
\* length the engine accepts: the largest length is 2^32 - 1, and
\* (2^32 - 1) / 3 = 1431655765.
MaxPlaneLength == 1431655765

\* The side of the frames the worker is written for, line 10.  A machine
\* that runs the worker allocates the tensor of such a frame; whether it
\* allocates a larger one depends on the memory it has.
MODEL_INPUT_SIZE == 640
SurePlaneLength == MODEL_INPUT_SIZE * MODEL_INPUT_SIZE

Abs(x) == IF x < 0 THEN 0 - x ELSE x

\* new Float32Array(3 * width * height), line 150: what the call can do.  It
\* throws a RangeError when the length is negative or above the largest
\* typed array length; it gives the array when the length is one the
\* machine surely allocates; for a length in between it gives the array or
\* throws the RangeError of a failed allocation, as the machine's memory
\* decides.  The product itself may be beyond the integers at hand, so its
\* sign and its size are read off the factors.
Float32ArrayOutcomes(width, height) ==
    IF width = 0 \/ height = 0 THEN {"array"}
    ELSE IF \/ (width < 0) /= (height < 0)
            \/ Abs(height) > MaxPlaneLength
            \/ Abs(width) > MaxPlaneLength \div Abs(height)
    THEN {"RangeError"}
    ELSE IF /\ Abs(height) <= SurePlaneLength
            /\ Abs(width) <= SurePlaneLength \div Abs(height)
    THEN {"array"}
    ELSE {"array", "RangeError"}

\* What a call that throws gives instead of a value.
RangeError == [throws |-> "RangeError"]
TypeError == [throws |-> "TypeError"]

\* preprocessImageData(imageData), lines 140-162, for an imageData that is an
\* object: what the call can do.  It returns the tensor, or throws the
\* RangeError of line 150, or the TypeError of line 152 when imageData.data
\* is undefined.
PreprocessOutcomes(imageData) ==
    LET array == Float32ArrayOutcomes(imageData.width, imageData.height) IN
    (IF "RangeError" \in array THEN {"RangeError"} ELSE {})
    \cup (IF "array" \notin array THEN {}
          ELSE IF HasField(imageData, "data") THEN {"tensor"}
          ELSE {"TypeError"})

\* The buffers after the loop of lines 150-159.
PreprocessHeap(imageData) ==
    FillPlanes([pixelData |-> PixelData(imageData.data),
                float32Data |->
                    [k \in 1..(3 * imageData.width * imageData.height) |-> Zero]],
               imageData.width * imageData.height, 0)

\* The result of preprocessImageData(imageData) when the array of line 150 is
\* allocated if it can be: the tensor, or what the call throws.
preprocessImageData(imageData) ==
    IF "tensor" \in PreprocessOutcomes(imageData)
    THEN [type |-> "float32",
          data |-> PreprocessHeap(imageData).float32Data,
          dims |-> <<1, 3, imageData.width, imageData.height>>]
    ELSE IF "TypeError" \in PreprocessOutcomes(imageData) THEN TypeError
    ELSE RangeError

\* imageData.data after the call returned: a typed array is pixelData itself,
\* a plain Array was copied at line 144.
DataAfterPreprocess(imageData) ==
    IF IsArray(imageData.data) THEN imageData.data
    ELSE [kind |-> imageData.data.kind,
          items |-> PreprocessHeap(imageData).pixelData]

\* preprocessImageData(data.imageData), line 89, can throw: a TypeError at
\* line 141 when imageData is undefined, else as above.
PreprocessMayThrow(data) ==
    IF HasField(data, "imageData")
    THEN PreprocessOutcomes(data.imageData) /= {"tensor"}
    ELSE TRUE

\* preprocessImageData(data.imageData), line 89, can return.
PreprocessMayReturn(data) ==
    IF HasField(data, "imageData")
    THEN "tensor" \in PreprocessOutcomes(data.imageData)
    ELSE FALSE

\* ------------------------------------------------------- inference engine
Range(f) == { f[k] : k \in DOMAIN f }

\* The result of session.run(feeds) on session s when it resolves: one tensor
\* per output name the session declares.  The engine is opaque: a tensor is
\* named by the model, the output and the feeds it was computed from.
RunResults(s, feeds) ==
    [name \in Range(ModelOutputNames(sessions[s])) |->
        [data |-> <<"out", sessions[s], name, feeds>>,
         dims |-> <<"dims", sessions[s], name>>]]

\* The sessions released with session.release(): the worker never calls it,
\* a replaced session (line 52) is only dropped.
Released == {}

\* ------------------------------------------------------ outbound messages
LoadErrorMsg == [type |-> "ERROR", error |-> "Failed to load model"]
NotInitializedMsg == [type |-> "ERROR", error |-> "Model not initialized"]
HandlerErrorMsg == [type |-> "ERROR", error |-> "TypeError"]
ProcessingErrorMsg(frameId) ==
    [type |-> "ERROR", error |-> "Processing failed", frameId |-> frameId]
\* Mutant of ModelLoadedMsg: the two name lists are swapped.
ModelLoadedMsg_Swapped(inputNames, outputNames) ==
    [type |-> "MODEL_LOADED", inputNames |-> outputNames, outputNames |-> inputNames]

ModelLoadedMsg(inputNames, outputNames) ==
    [type |-> "MODEL_LOADED", inputNames |-> inputNames, outputNames |-> outputNames]
\* processingTime, a clock reading, is left out of FRAME_PROCESSED.
FrameProcessedMsg(frameId, timestamp, outputTensor) ==
    [type |-> "FRAME_PROCESSED", frameId |-> frameId, timestamp |-> timestamp,
     output |-> [data |-> outputTensor.data, dims |-> outputTensor.dims]]

\* Mutant of TransferList: the message is posted without a transfer list.
TransferList_None(outputData) == {}

\* The transfer list of line 124, [outputData.buffer]: the buffers whose
\* ownership goes to the host with the message.
TransferList(outputData) == {outputData}

\* self.postMessage(m) or self.postMessage(m, transfer) by run rid.  The
\* trace entry records the run, the number of messages received so far (at),
\* the sessions the run used: the session whose run produced the results
\* (runSession), the session whose outputNames selected the delivered tensor
\* (outSession), the session the run created (created), null when there is
\* none; and the transfer list, empty when the call has none.
NoSessions ==
    [runSession |-> null, outSession |-> null, created |-> null, transfer |-> {}]

PostMessage(rid, m, used) ==
    /\ outbox' = Append(outbox, m)
    /\ trace' = Append(trace, [rid |-> rid, at |-> Len(inbox')] @@ used)

NoPost == UNCHANGED <<outbox, trace>>

\* ---------------------------------------------------------------- actions
\* Mutant of SessionLoaded: frames are refused while an INIT is loading.
SessionLoaded_NotLoading ==
    /\ session /= null
    /\ \A r \in DOMAIN pc : pc[r] \notin {"fetch", "arrayBuffer", "create"}

\* Mutant of SessionLoaded: a failed load keeps frames refused for good.
SessionLoaded_Sticky ==
    /\ session /= null
    /\ \A i \in DOMAIN outbox : outbox[i] /= LoadErrorMsg

\* The guard of line 73, negated: a session is loaded.
SessionLoaded == session /= null

\* Mutant of Suspend: frameId, timestamp and feeds are globals, so a frame
\* that starts its run overwrites those of the frames already in flight.
Suspend_SharedLocals(rid, at, locals) ==
    /\ pc' = [k \in 1..(IF rid > Len(pc) THEN rid ELSE Len(pc)) |->
                 IF k = rid THEN at ELSE pc[k]]
    /\ ctx' = [k \in 1..(IF rid > Len(ctx) THEN rid ELSE Len(ctx)) |->
                 IF k = rid THEN locals
                 ELSE IF at = "run" /\ pc[k] = "run" THEN locals
                 ELSE ctx[k]]

\* Handler run rid reaches the await `at` holding `locals`, or ends.  A run
\* that has just started (rid = Len(pc) + 1) is added.
Suspend(rid, at, locals) ==
    /\ pc' = [k \in 1..(IF rid > Len(pc) THEN rid ELSE Len(pc)) |->
                 IF k = rid THEN at ELSE pc[k]]
    /\ ctx' = [k \in 1..(IF rid > Len(ctx) THEN rid ELSE Len(ctx)) |->
                 IF k = rid THEN locals ELSE ctx[k]]

\* The locals of self.onmessage, line 14: type and data of e.data (msg); data
\* may be undefined.
HandlerLocals(msg) ==
    IF HasField(msg, "data")
    THEN [type |-> msg.type, data |-> msg.data]
    ELSE [type |-> msg.type]

\* The locals of a run that has just started and is inside initModel or
\* processFrame: those of the handler and those of the function (inner).
Locals(rid, inner) == HandlerLocals(inbox'[rid].data) @@ inner

\* self.onmessage ends, line 35: the run holds nothing any more.
Finish(rid) == Suspend(rid, "done", NoCtx)

\* initModel or processFrame returns to the `await` of line 19 or 23, and its
\* own locals are gone.  In the task of the message itself (the run has just
\* started) no other continuation is queued, and the handler resumes and
\* ends at once; after an await of the function the handler's continuation
\* is queued behind the continuations queued before it, and the handler
\* stays suspended holding type and data.
Return(rid) ==
    IF rid \in DOMAIN pc
    THEN Suspend(rid, "handler", HandlerLocals(inbox[rid].data))
    ELSE Finish(rid)

\* The catch of self.onmessage, lines 29-34.
HandlerCatch(rid) ==
    /\ PostMessage(rid, HandlerErrorMsg, NoSessions)
    /\ Finish(rid)
    /\ UNCHANGED <<session, sessions>>

\* Mutant of InitCatch: the load error is swallowed.
InitCatch_Silent(rid) ==
    /\ NoPost
    /\ Return(rid)
    /\ UNCHANGED <<session, sessions>>

\* Mutant of InitCatch: a failed load clears the session.
InitCatch_Clears(rid) ==
    /\ PostMessage(rid, LoadErrorMsg, NoSessions)
    /\ Return(rid)
    /\ session' = null
    /\ UNCHANGED sessions

\* The catch of initModel, lines 64-69.
InitCatch(rid) ==
    /\ PostMessage(rid, LoadErrorMsg, NoSessions)
    /\ Return(rid)
    /\ UNCHANGED <<session, sessions>>

\* Mutant of FrameCatch: a failed frame drops the session.
FrameCatch_Reset(rid, frameId) ==
    /\ PostMessage(rid, ProcessingErrorMsg(frameId), NoSessions)
    /\ Return(rid)
    /\ session' = null
    /\ UNCHANGED sessions

\* Mutant of FrameCatch: the failure is only logged.
FrameCatch_Silent(rid, frameId) ==
    /\ NoPost
    /\ Return(rid)
    /\ UNCHANGED <<session, sessions>>

\* The catch of processFrame, lines 126-137.
FrameCatch(rid, frameId) ==
    /\ PostMessage(rid, ProcessingErrorMsg(frameId), NoSessions)
    /\ Return(rid)
    /\ UNCHANGED <<session, sessions>>

\* Mutant of NotInitialized: the `return` of line 78 is missing, so the
\* handler goes on to line 81 and fails there a second time.
NotInitialized_NoReturn(rid) ==
    /\ outbox' = outbox \o
          << NotInitializedMsg,
             IF HasField(inbox'[rid].data, "data")
             THEN ProcessingErrorMsg(inbox'[rid].data.data.frameId)
             ELSE HandlerErrorMsg >>
    /\ trace' = trace \o
          << [rid |-> rid, at |-> Len(inbox')] @@ NoSessions,
             [rid |-> rid, at |-> Len(inbox')] @@ NoSessions >>
    /\ Return(rid)
    /\ UNCHANGED <<session, sessions>>

\* The early return of processFrame, lines 73-79.
NotInitialized(rid) ==
    /\ PostMessage(rid, NotInitializedMsg, NoSessions)
    /\ Return(rid)
    /\ UNCHANGED <<session, sessions>>

\* Mutant of UnknownType: the default case throws, and the catch replies.
UnknownType_Throws(rid) == HandlerCatch(rid)

\* The default case of the switch, lines 26-27: console.warn.
UnknownType(rid) ==
    /\ Finish(rid)
    /\ NoPost
    /\ UNCHANGED <<session, sessions>>

\* initModel(modelPath) up to `await fetch(modelPath)`, line 39.
initModel(rid, modelPath) ==
    /\ Suspend(rid, "fetch", Locals(rid, [modelPath |-> modelPath]))
    /\ NoPost
    /\ UNCHANGED <<session, sessions>>

\* processFrame(data) up to `await session.run(feeds)`, line 96; msg is
\* e.data, whose data field may be absent.
processFrame(rid, msg) ==
    IF ~SessionLoaded
    THEN NotInitialized(rid)
    ELSE IF ~HasField(msg, "data")
    THEN \* line 81 destructures undefined: the TypeError rejects the promise
         \* of processFrame and is caught by self.onmessage
         HandlerCatch(rid)
    ELSE \/ \* line 89 throws inside the try
            /\ PreprocessMayThrow(msg.data)
            /\ FrameCatch(rid, msg.data.frameId)
         \/ \* line 89 returns: lines 89-96
            /\ PreprocessMayReturn(msg.data)
            /\ LET inputTensor == preprocessImageData(msg.data.imageData)
                   feeds == [name |-> ModelInputNames(sessions[session])[1],
                             tensor |-> inputTensor]
               IN  /\ Suspend(rid, "run",
                              Locals(rid, [imageData |-> msg.data.imageData,
                                           frameId |-> msg.data.frameId,
                                           timestamp |-> msg.data.timestamp,
                                           inputTensor |-> inputTensor,
                                           feeds |-> feeds,
                                           runSession |-> session]))
                   /\ NoPost
                   /\ UNCHANGED <<session, sessions>>

\* self.onmessage(e), lines 13-35, up to the first await of the handler.
\* The event is a task of its own: it starts when the continuations queued
\* by the task before it have run, so no handler is waiting to resume.
OnMessage(e) ==
    /\ Len(inbox) < MaxMsgs
    /\ \A r \in DOMAIN pc : pc[r] /= "handler"
    /\ inbox' = Append(inbox, e)
    /\ UNCHANGED codec
    /\ LET rid == Len(inbox) + 1 IN
       IF ~HasField(e, "data")
       THEN \* line 14 destructures null outside the try: the promise of the
            \* handler rejects, nothing is posted
            /\ Suspend(rid, "uncaught", NoCtx)
            /\ NoPost
            /\ UNCHANGED <<session, sessions>>
       ELSE CASE e.data.type = "INIT" ->
                   IF HasField(e.data, "data")
                   THEN initModel(rid, e.data.data.modelPath)
                   ELSE \* data.modelPath throws at line 19
                        HandlerCatch(rid)
              [] e.data.type = "PROCESS_FRAME" ->
                   processFrame(rid, e.data)
              [] OTHER -> UnknownType(rid)

\* `await fetch(modelPath)` resolves: line 40 starts reading the body.
FetchResolve(rid) ==
    /\ rid \in DOMAIN pc /\ pc[rid] = "fetch"
    /\ Suspend(rid, "arrayBuffer", ctx[rid])
    /\ NoPost
    /\ UNCHANGED <<session, sessions, inbox, codec>>

\* `await fetch(modelPath)` rejects.
FetchReject(rid) ==
    /\ rid \in DOMAIN pc /\ pc[rid] = "fetch"
    /\ UNCHANGED <<inbox, codec>>
    /\ InitCatch(rid)

\* `await modelResponse.arrayBuffer()` resolves: lines 44-52 call
\* ort.InferenceSession.create.
ArrayBufferResolve(rid) ==
    /\ rid \in DOMAIN pc /\ pc[rid] = "arrayBuffer"
    /\ Suspend(rid, "create", ctx[rid])
    /\ NoPost
    /\ UNCHANGED <<session, sessions, inbox, codec>>

\* `await modelResponse.arrayBuffer()` rejects.
ArrayBufferReject(rid) ==
    /\ rid \in DOMAIN pc /\ pc[rid] = "arrayBuffer"
    /\ UNCHANGED <<inbox, codec>>
    /\ InitCatch(rid)

\* `await ort.InferenceSession.create(...)` resolves with a new session:
\* lines 52-63 assign it to `session`, log its backend and post MODEL_LOADED,
\* with no await in between.
CreateResolve(rid) ==
    /\ rid \in DOMAIN pc /\ pc[rid] = "create"
    /\ UNCHANGED <<inbox, codec>>
    /\ LET created == Len(sessions) + 1
           model == ctx[rid].modelPath
       IN  /\ sessions' = Append(sessions, model)
           /\ session' = created
           /\ PostMessage(rid,
                          ModelLoadedMsg(ModelInputNames(sessions'[session']),
                                         ModelOutputNames(sessions'[session'])),
                          [NoSessions EXCEPT !.created = created])
    /\ Return(rid)

\* `await ort.InferenceSession.create(...)` rejects.
CreateReject(rid) ==
    /\ rid \in DOMAIN pc /\ pc[rid] = "create"
    /\ UNCHANGED <<inbox, codec>>
    /\ InitCatch(rid)

\* Mutant of OutputNameSession: the output name is the one of the session
\* loaded first.
OutputNameSession_First(rid) == 1

\* The session whose outputNames line 100 reads: the global `session` at the
\* time the run resolves.
OutputNameSession(rid) == session

\* `await session.run(feeds)` resolves: lines 97-125.
RunResolve(rid) ==
    /\ rid \in DOMAIN pc /\ pc[rid] = "run"
    /\ UNCHANGED <<inbox, codec>>
    /\ LET c == ctx[rid]
           results == RunResults(c.runSession, c.feeds)
           outputName == ModelOutputNames(sessions[OutputNameSession(rid)])[1]
           \* line 111: a copy of outputTensor.data
           outputData == results[outputName].data
       IN  IF outputName \in DOMAIN results
           THEN /\ PostMessage(rid,
                               FrameProcessedMsg(c.frameId, c.timestamp,
                                                 results[outputName]),
                               [NoSessions EXCEPT
                                   !.runSession = c.runSession,
                                   !.outSession = OutputNameSession(rid),
                                   !.transfer = TransferList(outputData)])
                /\ Return(rid)
                /\ UNCHANGED <<session, sessions>>
           ELSE \* results[outputName] is undefined: line 111 throws
                FrameCatch(rid, c.frameId)

\* `await session.run(feeds)` rejects.
RunReject(rid) ==
    /\ rid \in DOMAIN pc /\ pc[rid] = "run"
    /\ UNCHANGED <<inbox, codec>>
    /\ FrameCatch(rid, ctx[rid].frameId)

\* The handler resumes after `await initModel(...)` or `await
\* processFrame(data)`, lines 19-20 and 23-24, and ends at line 35; neither
\* function rejects after an await of its own, so the catch is not entered.
HandlerResume(rid) ==
    /\ rid \in DOMAIN pc /\ pc[rid] = "handler"
    /\ Finish(rid)
    /\ NoPost
    /\ UNCHANGED <<session, sessions, inbox, codec>>

Next ==
    \/ \E e \in Events : OnMessage(e)
    \/ \E rid \in 1..MaxMsgs : FetchResolve(rid)
    \/ \E rid \in 1..MaxMsgs : FetchReject(rid)
    \/ \E rid \in 1..MaxMsgs : ArrayBufferResolve(rid)
    \/ \E rid \in 1..MaxMsgs : ArrayBufferReject(rid)
    \/ \E rid \in 1..MaxMsgs : CreateResolve(rid)
    \/ \E rid \in 1..MaxMsgs : CreateReject(rid)
    \/ \E rid \in 1..MaxMsgs : RunResolve(rid)
    \/ \E rid \in 1..MaxMsgs : RunReject(rid)
    \/ \E rid \in 1..MaxMsgs : HandlerResume(rid)

Spec == Init /\ [][Next]_vars

\* The awaited call of handler run rid settles: fetch, arrayBuffer, create
\* and run each eventually resolve or reject, and a queued continuation of
\* the handler eventually runs.
Settle(rid) ==
    \/ FetchResolve(rid) \/ FetchReject(rid)
    \/ ArrayBufferResolve(rid) \/ ArrayBufferReject(rid)
    \/ CreateResolve(rid) \/ CreateReject(rid)
    \/ RunResolve(rid) \/ RunReject(rid)
    \/ HandlerResume(rid)

FairSpec == Spec /\ \A rid \in 1..MaxMsgs : WF_vars(Settle(rid))

\* ------------------------------------------------- the tensor codec alone
\* preprocessImageData is a pure function: it is also checked on its own, on
\* images of every width and height up to the bounds, whose bytes follow a
\* few patterns (all zero among them) and whose buffer has the length
\* 4 * width * height or is one byte short or one pixel long.  The buffer
\* is a plain Array, a Uint8ClampedArray or an Int16Array; the values of
\* some lie below 0 or above 255, as far as the container can hold them.
PixelSeeds == {0, 1, 37, 85, 255}
LengthDeltas == {-1, 0, 4}
PatternByte(seed, k) == (seed * k) % 256
ContainerKinds == {"Array", "Uint8ClampedArray", "Int16Array"}
ValueShifts == {-6, 0, 45}

\* The value a container of the kind holds after v is written to it.
Held(kind, v) == IF kind = "Uint8ClampedArray" THEN Clamp(v) ELSE v

CodecImages ==
    { [data |-> [kind |-> kind,
                 items |-> [k \in 1..(4 * w * h + d) |->
                               Held(kind, PatternByte(seed, k) + shift)]],
       width |-> w, height |-> h] :
        w \in 1..MaxWidth, h \in 1..MaxHeight, seed \in PixelSeeds,
        d \in LengthDeltas, kind \in ContainerKinds, shift \in ValueShifts }

\* The images of CodecImages with the sign of the width or of the height
\* turned.
NegativeImages ==
    { [data |-> img.data, width |-> -img.width, height |-> img.height] :
        img \in CodecImages }
    \cup { [data |-> img.data, width |-> img.width, height |-> -img.height] :
        img \in CodecImages }

\* The images of CodecImages with both sides scaled so that
\* 3 * width * height is above the largest typed array length.
HugeScale == 65536
HugeImages ==
    { [data |-> img.data,
       width |-> HugeScale * img.width, height |-> HugeScale * img.height] :
        img \in CodecImages }

\* Square images one pixel wider and taller than the frames the worker is
\* written for, with the buffer of a single pixel: the machine may or may
\* not allocate their tensor.
LargeImages ==
    { [data |-> img.data,
       width |-> MODEL_INPUT_SIZE + 1, height |-> MODEL_INPUT_SIZE + 1] :
        img \in { i \in CodecImages :
                     /\ i.width = 1 /\ i.height = 1 /\ Len(i.data.items) = 4
                     /\ i.data.kind = "Uint8ClampedArray" } }

\* A caller holds an image (given) and passes it as imageData.
CodecInit ==
    /\ session = null
    /\ sessions = << >>
    /\ inbox = << >>
    /\ pc = << >>
    /\ ctx = << >>
    /\ outbox = << >>
    /\ trace = << >>
    /\ codec \in { [pc |-> "call", given |-> img, imageData |-> img] :
                     img \in CodecImages \cup NegativeImages \cup HugeImages
                             \cup LargeImages }

\* The call preprocessImageData(imageData), lines 140-162: it throws before
\* its loop, or it returns the tensor and leaves in imageData.data what the
\* loop left there.
Encode ==
    /\ codec.pc = "call"
    /\ \/ /\ PreprocessMayThrow([imageData |-> codec.imageData])
          /\ codec' = [pc |-> "threw",
                       given |-> codec.given,
                       imageData |-> codec.imageData]
       \/ /\ PreprocessMayReturn([imageData |-> codec.imageData])
          /\ codec' = [pc |-> "returned",
                       given |-> codec.given,
                       imageData |->
                           [codec.imageData EXCEPT
                               !.data = DataAfterPreprocess(codec.imageData)],
                       tensor |-> preprocessImageData(codec.imageData)]
    /\ UNCHANGED <<session, sessions, inbox, pc, ctx, outbox, trace>>

CodecNext == Encode

CodecSpec == CodecInit /\ [][CodecNext]_vars


\* ------------------------------------------------------------- properties
\* Vocabulary of the properties below.
EvIsType(e, type) == HasField(e, "data") /\ e.data.type = type
EvIsInit(e) == EvIsType(e, "INIT")
EvIsFrame(e) == EvIsType(e, "PROCESS_FRAME")
\* The PROCESS_FRAME carries a data payload (with its frameId); it is
\* well-formed when the encoding of its image cannot throw: the payload
\* carries imageData with its bytes and a size whose tensor is surely
\* allocated.
EvHasFrameId(e) == EvIsFrame(e) /\ HasField(e.data, "data")
EvWellFormed(e) == EvHasFrameId(e) /\ ~PreprocessMayThrow(e.data.data)

IsInit(rid) == rid \in DOMAIN inbox /\ EvIsInit(inbox[rid])
IsFrame(rid) == rid \in DOMAIN inbox /\ EvIsFrame(inbox[rid])
HasFrameId(rid) == rid \in DOMAIN inbox /\ EvHasFrameId(inbox[rid])
WellFormed(rid) == rid \in DOMAIN inbox /\ EvWellFormed(inbox[rid])
DataOf(rid) == inbox[rid].data.data

\* The function the handler of run rid called has returned: the handler is
\* about to end or has ended.
Returned(rid) == pc[rid] \in {"handler", "done"}

\* The positions in outbox of the messages run rid posted.
Posts(rid) == { i \in DOMAIN outbox : trace[i].rid = rid }

InitInProgress == \E r \in DOMAIN pc : pc[r] \in {"fetch", "arrayBuffer", "create"}
RunOutstanding == \E r \in DOMAIN pc : pc[r] = "run"

\* This step starts handler run NewRid on the event NewEvent.
Received == inbox' /= inbox
NewRid == Len(inbox')
NewEvent == inbox'[Len(inbox')]

\* C1: every PROCESS_FRAME request with a frameId that has been handled to
\* the end produced exactly one message, a FRAME_PROCESSED or an ERROR, and
\* that message carries the request's frameId.
C1_OneTaggedReplyPerFrame ==
    \A rid \in DOMAIN inbox :
        (HasFrameId(rid) /\ Returned(rid)) =>
            /\ Cardinality(Posts(rid)) = 1
            /\ \A i \in Posts(rid) :
                  /\ outbox[i].type \in {"FRAME_PROCESSED", "ERROR"}
                  /\ HasField(outbox[i], "frameId")
                  /\ outbox[i].frameId = DataOf(rid).frameId

\* C2: while a session.run is outstanding the active session is the one the
\* run was started on: no INIT replaces it in between.
C2_NoReplaceWhileRunning ==
    \A rid \in DOMAIN pc :
        pc[rid] = "run" => session = ctx[rid].runSession

\* C3: for every FRAME_PROCESSED posted, the session that executed the run
\* (whose first input name bound the tensor) is the session whose first
\* output name selected the delivered tensor.
C3_OneSessionPerResult ==
    \A i \in DOMAIN outbox :
        outbox[i].type = "FRAME_PROCESSED" =>
            trace[i].outSession = trace[i].runSession

\* The WorkerState of the specification, read off the worker: Loading while
\* an INIT is being handled, otherwise Failed when the INIT that ended last
\* ended with an ERROR, otherwise Uninitialized, Ready or Processing.
InitPosts == { i \in DOMAIN outbox : IsInit(trace[i].rid) }
LastInitPost == CHOOSE i \in InitPosts : \A j \in InitPosts : j <= i
WorkerState ==
    IF InitInProgress THEN "Loading"
    ELSE IF InitPosts /= {} /\ outbox[LastInitPost].type = "ERROR" THEN "Failed"
    ELSE IF session = null THEN "Uninitialized"
    ELSE IF RunOutstanding THEN "Processing"
    ELSE "Ready"

\* C4 as stated: a PROCESS_FRAME received in a state other than Ready or
\* Processing is answered with an ERROR and does not reach session.run.
C4_OnlyReadyOrProcessing ==
    [][ (Received /\ EvIsFrame(NewEvent) /\ WorkerState \notin {"Ready", "Processing"})
          => /\ pc'[NewRid] /= "run"
             /\ Len(outbox') = Len(outbox) + 1
             /\ outbox'[Len(outbox')].type = "ERROR" ]_vars

\* C4 amended: a PROCESS_FRAME is answered with the "Model not initialized"
\* ERROR, without session.run, exactly when no session is loaded.  With a
\* session loaded, in every WorkerState, Loading and Failed included: a
\* frame without its data payload is answered with the handler's ERROR; a
\* frame with its payload is encoded, and it either is answered "Processing
\* failed" with its frameId (the encoding threw) or reaches session.run with
\* its tensor and nothing posted (the encoding returned): the former when
\* the encoding cannot return, the latter when it cannot throw.
C4_AcceptedIffSessionLoaded ==
    [][ (Received /\ EvIsFrame(NewEvent))
          => /\ (session = null) <=>
                    (/\ Len(outbox') = Len(outbox) + 1
                     /\ outbox'[Len(outbox')] = NotInitializedMsg)
             /\ (session = null) => pc'[NewRid] = "done"
             /\ (session /= null /\ ~EvHasFrameId(NewEvent))
                    => /\ pc'[NewRid] = "done"
                       /\ outbox' = Append(outbox, HandlerErrorMsg)
             /\ (session /= null /\ EvHasFrameId(NewEvent))
                    => \/ outbox' = Append(outbox,
                              ProcessingErrorMsg(NewEvent.data.data.frameId))
                       \/ pc'[NewRid] = "run" /\ outbox' = outbox
             /\ (session /= null /\ EvHasFrameId(NewEvent)
                               /\ ~PreprocessMayReturn(NewEvent.data.data))
                    => /\ pc'[NewRid] = "done"
                       /\ outbox' = Append(outbox,
                              ProcessingErrorMsg(NewEvent.data.data.frameId))
             /\ (session /= null /\ EvHasFrameId(NewEvent)
                               /\ ~PreprocessMayThrow(NewEvent.data.data))
                    => /\ pc'[NewRid] = "run"
                       /\ outbox' = outbox
                       /\ ctx'[NewRid].inputTensor =
                              preprocessImageData(NewEvent.data.data.imageData)
                       /\ ctx'[NewRid].runSession = session ]_vars

\* Witness of C4: the last message is a frame waiting on session.run, and it
\* was received in Failed: the INIT that ended last failed in the handler
\* (synchronously, so before the frame arrived) and no INIT is in progress.
C4_Witness ==
    /\ Len(inbox) > 0
    /\ WellFormed(Len(inbox))
    /\ pc[Len(inbox)] = "run"
    /\ WorkerState = "Failed"
    /\ outbox[LastInitPost] = HandlerErrorMsg
    /\ trace[LastInitPost].rid < Len(inbox)

\* C5: a PROCESS_FRAME received while no session is loaded posts exactly the
\* "Model not initialized" ERROR in the same step, ends there (no encoding,
\* no session.run, no uncaught fault), and leaves the session absent and
\* every other handler run as it was.
C5_NotInitializedReply ==
    [][ (Received /\ EvIsFrame(NewEvent) /\ session = null)
          => /\ outbox' = Append(outbox, NotInitializedMsg)
             /\ pc'[NewRid] = "done"
             /\ ctx'[NewRid] = NoCtx
             /\ session' = null
             /\ sessions' = sessions
             /\ \A r \in DOMAIN pc : pc'[r] = pc[r] /\ ctx'[r] = ctx[r] ]_vars

\* Witness of C5: an INIT failed at session creation or earlier, no session
\* is loaded, and the frame received last (of either malformed kind or not)
\* was answered "Model not initialized".
C5_Witness ==
    /\ Len(inbox) > 0 /\ Len(outbox) > 0
    /\ IsFrame(Len(inbox))
    /\ session = null
    /\ \E i \in DOMAIN outbox : outbox[i] = LoadErrorMsg
    /\ trace[Len(outbox)].rid = Len(inbox)
    /\ outbox[Len(outbox)] = NotInitializedMsg


\* C6: every INIT posts at most one message, and exactly one once handled:
\* MODEL_LOADED with the input and output names of the session it created
\* from its modelPath, or an ERROR with a cause; every session created has
\* its MODEL_LOADED; and again and again every INIT received so far has been
\* handled to that end, so each INIT eventually is.
C6_InitReplies ==
    /\ \A s \in DOMAIN sessions :
          \E i \in DOMAIN outbox :
              outbox[i].type = "MODEL_LOADED" /\ trace[i].created = s
    /\ \A rid \in DOMAIN inbox :
          IsInit(rid) =>
            /\ Cardinality(Posts(rid)) <= 1
            /\ Returned(rid) => Cardinality(Posts(rid)) = 1
            /\ \A i \in Posts(rid) :
                  \/ /\ outbox[i].type = "ERROR"
                     /\ HasField(outbox[i], "error")
                     /\ trace[i].created = null
                  \/ /\ outbox[i].type = "MODEL_LOADED"
                     /\ trace[i].created \in DOMAIN sessions
                     /\ sessions[trace[i].created] = DataOf(rid).modelPath
                     /\ outbox[i].inputNames =
                            ModelInputNames(sessions[trace[i].created])
                     /\ outbox[i].outputNames =
                            ModelOutputNames(sessions[trace[i].created])

\* Every INIT received so far has been handled to its single reply.
C6_AllInitsAnswered ==
    \A rid \in DOMAIN inbox :
        IsInit(rid) => (pc[rid] = "done" /\ Cardinality(Posts(rid)) = 1)

C6_EveryInitRepliesOnce == []C6_InitReplies /\ []<>C6_AllInitsAnswered

\* Witness of C6: all INITs are handled, one answered MODEL_LOADED and
\* another answered with the load ERROR.
C6_Witness ==
    /\ ~InitInProgress
    /\ \E i, j \in DOMAIN outbox :
          /\ IsInit(trace[i].rid) /\ outbox[i].type = "MODEL_LOADED"
          /\ IsInit(trace[j].rid) /\ outbox[j] = LoadErrorMsg

\* C7: every session creation that succeeds, after failed INITs or not,
\* installs the session it created and emits MODEL_LOADED for it, and no
\* PROCESS_FRAME received after a MODEL_LOADED is refused as "not
\* initialized": a well-formed one reaches session.run.
C7_RetryInstallsSession ==
    /\ sessions /= << >> => session = Len(sessions)
    /\ \A s \in DOMAIN sessions :
          \E i \in DOMAIN outbox :
              outbox[i].type = "MODEL_LOADED" /\ trace[i].created = s
    /\ \A i \in DOMAIN outbox :
          outbox[i].type = "MODEL_LOADED" =>
            \A f \in DOMAIN inbox :
                (IsFrame(f) /\ f > trace[i].at) =>
                  /\ \A k \in Posts(f) : outbox[k] /= NotInitializedMsg
                  /\ WellFormed(f) =>
                        \/ pc[f] = "run"
                        \/ \A k \in Posts(f) : HasField(outbox[k], "frameId")

\* Witness of C7: an INIT failed, an INIT sent after that failure loaded a
\* session, and a frame sent after the MODEL_LOADED was processed.
C7_Witness ==
    \E j, i, k \in DOMAIN outbox :
        /\ j < i /\ i < k
        /\ IsInit(trace[j].rid) /\ outbox[j].type = "ERROR"
        /\ outbox[i].type = "MODEL_LOADED"
        /\ trace[j].at < trace[i].rid
        /\ outbox[k].type = "FRAME_PROCESSED"
        /\ trace[k].rid > trace[i].at

\* C8, the step: a step in which a PROCESS_FRAME run posts an ERROR leaves
\* the session, the created sessions, the messages already posted and every
\* other handler run (its await and its locals) unchanged.
FrameFailed ==
    /\ Len(outbox') = Len(outbox) + 1
    /\ outbox'[Len(outbox')].type = "ERROR"
    /\ EvIsFrame(inbox'[trace'[Len(trace')].rid])

C8_FailureStep ==
    FrameFailed =>
        /\ session' = session
        /\ sessions' = sessions
        /\ SubSeq(outbox', 1, Len(outbox)) = outbox
        /\ \A r \in DOMAIN pc :
              r /= trace'[Len(trace')].rid => (pc'[r] = pc[r] /\ ctx'[r] = ctx[r])

\* C8, the responses: every FRAME_PROCESSED carries the frameId and the
\* timestamp of the request that caused it and the output computed from
\* that request's own image.
C8_OwnResponse ==
    \A i \in DOMAIN outbox :
        outbox[i].type = "FRAME_PROCESSED" =>
            LET own == DataOf(trace[i].rid) IN
            /\ outbox[i].frameId = own.frameId
            /\ outbox[i].timestamp = own.timestamp
            /\ outbox[i].output.data[4].tensor = preprocessImageData(own.imageData)

\* C8: a failed PROCESS_FRAME changes neither the session nor any other
\* handler run, and every response is the one of its own request.
C8_FailedFrameIsolated == []C8_OwnResponse /\ [][C8_FailureStep]_vars

\* Witness of C8: a frame failed while another frame was in flight, and the
\* other frame was then answered FRAME_PROCESSED.
C8_Witness ==
    \E i, j \in DOMAIN outbox :
        /\ i < j
        /\ outbox[i].type = "ERROR" /\ HasField(outbox[i], "frameId")
        /\ outbox[j].type = "FRAME_PROCESSED"
        /\ trace[j].rid /= trace[i].rid
        /\ trace[j].rid <= trace[i].at

\* C9: receiving a message whose type is neither INIT nor PROCESS_FRAME
\* posts nothing and leaves the session and every handler run in flight
\* unchanged.
C9_UnknownIgnored ==
    [][ (Received /\ ~EvIsInit(NewEvent) /\ ~EvIsFrame(NewEvent))
          => /\ outbox' = outbox
             /\ session' = session
             /\ sessions' = sessions
             /\ \A r \in DOMAIN pc : pc'[r] = pc[r] /\ ctx'[r] = ctx[r] ]_vars

\* Witness of C9: a message of unknown type was received last, with a session
\* loaded and a frame in flight, and its handler run posted nothing.
C9_Witness ==
    /\ Len(inbox) > 0
    /\ EvIsType(inbox[Len(inbox)], "PING")
    /\ pc[Len(inbox)] = "done"
    /\ Posts(Len(inbox)) = {}
    /\ session /= null
    /\ RunOutstanding

\* A PROCESS_FRAME without its data payload, or whose encoding cannot
\* return: without its imageData or with an image of a size that is
\* negative or beyond every typed array.
Malformed(e) ==
    /\ EvIsFrame(e)
    /\ EvHasFrameId(e) => ~PreprocessMayReturn(e.data.data)

\* C10 as stated: a malformed PROCESS_FRAME received while a session is
\* loaded posts nothing.
C10_MalformedNoReply ==
    [][ (Received /\ Malformed(NewEvent) /\ session /= null)
          => outbox' = outbox ]_vars

\* C10 amended: a malformed PROCESS_FRAME received while a session is loaded
\* is answered in the same step with exactly one ERROR: "Processing failed"
\* with its frameId when the image cannot be encoded, the handler's ERROR
\* without frameId when the data payload is missing; session.run is not
\* invoked and the session stays.
C10_MalformedGetsError ==
    [][ (Received /\ Malformed(NewEvent) /\ session /= null)
          => /\ outbox' = Append(outbox,
                    IF EvHasFrameId(NewEvent)
                    THEN ProcessingErrorMsg(NewEvent.data.data.frameId)
                    ELSE HandlerErrorMsg)
             /\ pc'[NewRid] = "done"
             /\ session' = session ]_vars

\* Witness of C10: with a session loaded, the frame received last carries
\* no image that can be encoded and was answered "Processing failed" with
\* its frameId.
C10_Witness ==
    /\ Len(inbox) > 0 /\ Len(outbox) > 0
    /\ Malformed(inbox[Len(inbox)])
    /\ HasFrameId(Len(inbox))
    /\ session /= null
    /\ trace[Len(outbox)].rid = Len(inbox)
    /\ outbox[Len(outbox)] = ProcessingErrorMsg(DataOf(Len(inbox)).frameId)

\* C11: no handler run ends in an uncaught fault: every failure is turned
\* into a posted ERROR or a log entry inside the handler.
C11_NoUncaughtFault ==
    \A rid \in DOMAIN pc : pc[rid] /= "uncaught"

\* Vocabulary of the codec properties: the fraction v is a number in [0, 1];
\* the fraction v is the number p / 255.
InUnit(v) == v[2] > 0 /\ 0 <= v[1] /\ v[1] <= v[2]
IsOver255(v, p) == v[2] > 0 /\ v[1] * 255 = p * v[2]

CodecReturned == codec.pc = "returned"
\* The buffer has exactly width * height * 4 items (told by division: the
\* product may be beyond the integers at hand).
ExactSize(img) ==
    LET n == Len(img.data.items) IN
    /\ img.width >= 0 /\ img.height >= 0
    /\ IF img.width = 0 \/ img.height = 0 THEN n = 0
       ELSE /\ n % (4 * img.width) = 0
            /\ n \div (4 * img.width) = img.height
IsBytes(img) == \A j \in DOMAIN img.data.items : img.data.items[j] \in 0..255

\* C12: for a buffer of exactly w*h*4 bytes (values 0..255, in any
\* container) the call returns, it does not throw, whenever the tensor is
\* of a size the machine surely allocates; and whenever it returns, the
\* tensor has exactly 3*w*h values, each in [0, 1]; the value at i + k*w*h
\* is pixels[4*i+k] / 255 for every pixel i and k in {0, 1, 2}; an all-zero
\* buffer gives an all-zero tensor; and the buffer passed in holds after
\* the call what the caller gave.
C12_PlanarNormalized ==
    (codec.pc /= "call" /\ ExactSize(codec.given) /\ IsBytes(codec.given)) =>
        LET img == codec.given
            pixels == img.data.items
            plane == img.width * img.height
            out == codec.tensor.data
        IN  /\ ~PreprocessMayThrow([imageData |-> img]) => CodecReturned
            /\ CodecReturned =>
                /\ Len(out) = 3 * plane
                /\ \A j \in DOMAIN out : InUnit(out[j])
                /\ \A i \in 0..(plane - 1) : \A k \in 0..2 :
                      IsOver255(out[i + k * plane + 1], pixels[4 * i + k + 1])
                /\ (\A j \in DOMAIN pixels : pixels[j] = 0)
                      => \A j \in DOMAIN out : out[j][1] = 0
                /\ codec.imageData = img

\* Witness of C12: the codec returned the tensor of an exact-size image of
\* more than one pixel with width other than height and bytes not all zero,
\* given as a typed array, which the loop reads in place.
C12_Witness ==
    /\ CodecReturned
    /\ ~IsArray(codec.given.data)
    /\ ExactSize(codec.given)
    /\ IsBytes(codec.given)
    /\ codec.given.width /= codec.given.height
    /\ \E j \in DOMAIN codec.given.data.items :
          codec.given.data.items[j] \notin {0, 255}
    /\ Len(codec.tensor.data) = 6

\* C18: the tensor declares the shape (batch 1, channels 3, height, width).
C18_ShapeIsNCHW ==
    CodecReturned =>
        codec.tensor.dims = <<1, 3, codec.given.height, codec.given.width>>

\* C13: the session created last is the one active session, and every
\* PROCESS_FRAME received after its MODEL_LOADED binds its tensor to that
\* session's first input name, runs on that session and is delivered the
\* tensor under that session's first output name.
C13_LaterFramesUseLatestSession ==
    sessions /= << >> =>
        LET s == Len(sessions) IN
        /\ session = s
        /\ \A j \in DOMAIN outbox :
              (outbox[j].type = "MODEL_LOADED" /\ trace[j].created = s) =>
                \A f \in DOMAIN inbox :
                    (WellFormed(f) /\ f > trace[j].at) =>
                      /\ pc[f] = "run" =>
                            /\ ctx[f].runSession = s
                            /\ ctx[f].feeds.name = ModelInputNames(sessions[s])[1]
                      /\ \A i \in Posts(f) :
                            outbox[i].type = "FRAME_PROCESSED" =>
                              /\ trace[i].runSession = s
                              /\ trace[i].outSession = s
                              /\ outbox[i].output.data[2] = sessions[s]
                              /\ outbox[i].output.data[3] =
                                     ModelOutputNames(sessions[s])[1]
                              /\ outbox[i].output.data[4].name =
                                     ModelInputNames(sessions[s])[1]

\* Witness of C13: two INITs with different models succeeded one after the
\* other (the second was sent after the first MODEL_LOADED), and a frame sent
\* after the second MODEL_LOADED was answered FRAME_PROCESSED.
C13_Witness ==
    /\ Len(sessions) = 2
    /\ sessions[1] /= sessions[2]
    /\ \E j1, j2, i \in DOMAIN outbox :
          /\ trace[j1].created = 1 /\ trace[j2].created = 2
          /\ trace[j1].at < trace[j2].rid
          /\ outbox[i].type = "FRAME_PROCESSED"
          /\ trace[i].rid > trace[j2].at

\* C14: the step in which the run of a frame settles posts exactly one
\* message, at the end of the outbox, for that frame: whichever frame
\* completes first is answered first.  The message carries the frameId of
\* its own request and, for FRAME_PROCESSED, its timestamp and the output of
\* its own image; the other frames in flight are left as they were.
RunCompletes(r) == pc[r] = "run" /\ pc'[r] /= "run"

C14_AnsweredInCompletionOrder ==
    [][ \A r \in DOMAIN pc :
          RunCompletes(r) =>
            /\ Len(outbox') = Len(outbox) + 1
            /\ SubSeq(outbox', 1, Len(outbox)) = outbox
            /\ trace'[Len(trace')].rid = r
            /\ LET m == outbox'[Len(outbox')]
                   own == inbox[r].data.data
               IN  /\ m.type \in {"FRAME_PROCESSED", "ERROR"}
                   /\ m.frameId = own.frameId
                   /\ m.type = "FRAME_PROCESSED" =>
                         /\ m.timestamp = own.timestamp
                         /\ m.output.data[4].tensor =
                                preprocessImageData(own.imageData)
            /\ \A q \in DOMAIN pc :
                  q /= r => (pc'[q] = pc[q] /\ ctx'[q] = ctx[q]) ]_vars

\* Witness of C14: frameId 1 was sent before frameId 2, both were in flight
\* together, and FRAME_PROCESSED for frameId 2 was posted before the one for
\* frameId 1.
C14_Witness ==
    \E i, j \in DOMAIN outbox :
        /\ i < j
        /\ outbox[i].type = "FRAME_PROCESSED" /\ outbox[i].frameId = 2
        /\ outbox[j].type = "FRAME_PROCESSED" /\ outbox[j].frameId = 1
        /\ trace[j].rid < trace[i].rid

\* The number of loads in progress.
LoadsInProgress ==
    Cardinality({ r \in DOMAIN pc : pc[r] \in {"fetch", "arrayBuffer", "create"} })

\* C15: an INIT received in a state other than Uninitialized or Failed
\* starts no load, and at most one load is in progress.
C15_LoadingOnlyFromIdle ==
    [][ /\ (Received /\ EvIsInit(NewEvent)
               /\ WorkerState \notin {"Uninitialized", "Failed"})
            => pc'[NewRid] /= "fetch"
        /\ LoadsInProgress' <= 1 ]_vars

\* The created sessions whose resources are not released.
Unreleased == DOMAIN sessions \ Released

\* C16: whenever no inference is outstanding, at most one created session is
\* unreleased.
C16_OldSessionReleased ==
    ~RunOutstanding => Cardinality(Unreleased) <= 1

\* What the locals c of a run refer to: the frame's input buffer (through
\* imageData or through the handler's data), its tensor buffer (through
\* inputTensor or feeds), its output buffers (through results or outputData).
RefsInput(c) ==
    \/ HasField(c, "imageData")
    \/ HasField(c, "data") /\ HasField(c.data, "imageData")
RefsTensor(c) == HasField(c, "inputTensor") \/ HasField(c, "feeds")
RefsOutput(c) == HasField(c, "results") \/ HasField(c, "outputData")

\* The runs that have posted a FRAME_PROCESSED.
Delivered == { trace[i].rid : i \in { j \in DOMAIN outbox :
                                        outbox[j].type = "FRAME_PROCESSED" } }

\* C17 as stated: once a run has posted FRAME_PROCESSED, the output buffer is
\* in the transfer list of that message and the locals of the run refer to
\* none of the frame's input, tensor and output buffers.
C17_NoReferenceAfterPost ==
    \A i \in DOMAIN outbox :
        outbox[i].type = "FRAME_PROCESSED" =>
            /\ outbox[i].output.data \in trace[i].transfer
            /\ ~RefsInput(ctx[trace[i].rid])
            /\ ~RefsTensor(ctx[trace[i].rid])
            /\ ~RefsOutput(ctx[trace[i].rid])

\* C17 amended, the states: the output buffer of a FRAME_PROCESSED is in the
\* transfer list of the message; processFrame has returned, so the run
\* refers to no tensor and no output buffer; it is suspended in the handler
\* holding only type and data, or it has ended and holds nothing.
C17_OnlyHandlerDataHeld ==
    \A i \in DOMAIN outbox :
        outbox[i].type = "FRAME_PROCESSED" =>
            LET r == trace[i].rid IN
            /\ outbox[i].output.data \in trace[i].transfer
            /\ pc[r] \in {"handler", "done"}
            /\ ~RefsTensor(ctx[r]) /\ ~RefsOutput(ctx[r])
            /\ pc[r] = "handler" => ctx[r] = HandlerLocals(inbox[r].data)
            /\ pc[r] = "done" => ctx[r] = NoCtx

\* C17 amended, the steps: a run that has posted FRAME_PROCESSED posts
\* nothing more; its only step is the end of its handler, which drops type
\* and data and changes nothing else; and it has ended when the next
\* message is received.
C17_DeliveredStep ==
    \A r \in Delivered :
        /\ \A j \in DOMAIN outbox' : trace'[j].rid = r => j \in DOMAIN outbox
        /\ \/ pc'[r] = pc[r] /\ ctx'[r] = ctx[r]
           \/ /\ pc[r] = "handler" /\ pc'[r] = "done" /\ ctx'[r] = NoCtx
              /\ UNCHANGED <<session, sessions, inbox, outbox, trace>>
              /\ \A q \in DOMAIN pc :
                    q /= r => (pc'[q] = pc[q] /\ ctx'[q] = ctx[q])
        /\ Received => pc[r] = "done"

C17_ReleasedWhenHandlerEnds ==
    []C17_OnlyHandlerDataHeld /\ [][C17_DeliveredStep]_vars

\* Witness of C17: a run has posted FRAME_PROCESSED and is still suspended in
\* its handler, holding the frame's image through data, while another run
\* has posted after it.
C17_Witness ==
    \E i, j \in DOMAIN outbox :
        /\ i < j
        /\ outbox[i].type = "FRAME_PROCESSED"
        /\ trace[j].rid /= trace[i].rid
        /\ pc[trace[i].rid] = "handler"
        /\ RefsInput(ctx[trace[i].rid])

\* C19: once a MODEL_LOADED has been posted, the one posted last names the
\* session that is active: it is the MODEL_LOADED of that session and
\* carries its input and output names.
LoadedPosts == { i \in DOMAIN outbox : outbox[i].type = "MODEL_LOADED" }
LastLoadedPost == CHOOSE i \in LoadedPosts : \A j \in LoadedPosts : j <= i

C19_LastLoadedIsActive ==
    LoadedPosts /= {} =>
        /\ session /= null
        /\ trace[LastLoadedPost].created = session
        /\ outbox[LastLoadedPost].inputNames = ModelInputNames(sessions[session])
        /\ outbox[LastLoadedPost].outputNames = ModelOutputNames(sessions[session])

\* Witness of C19: two INITs for different models were loading at once and
\* completed in the reverse of the order they were sent.
C19_Witness ==
    /\ Len(sessions) = 2
    /\ sessions[1] /= sessions[2]
    /\ \E j1, j2 \in DOMAIN outbox :
          /\ trace[j1].created = 1 /\ trace[j2].created = 2
          /\ trace[j1].rid > trace[j2].rid

\* C20: the session changes only in a step of an INIT run that posts
\* MODEL_LOADED for the session it installs; a step in which an INIT run
\* posts an ERROR leaves the session and the created sessions as they were;
\* an INIT run that posted ERROR posted no MODEL_LOADED, so it made no
\* change at all; and a session once installed never becomes absent.
InitPostsError ==
    /\ Len(outbox') = Len(outbox) + 1
    /\ outbox'[Len(outbox')].type = "ERROR"
    /\ EvIsInit(inbox'[trace'[Len(trace')].rid])

C20_Step ==
    /\ session' /= session =>
          /\ session' /= null
          /\ Len(outbox') = Len(outbox) + 1
          /\ outbox'[Len(outbox')].type = "MODEL_LOADED"
          /\ EvIsInit(inbox'[trace'[Len(trace')].rid])
          /\ trace'[Len(trace')].created = session'
    /\ InitPostsError => (session' = session /\ sessions' = sessions)
    /\ session /= null => session' /= null

C20_FailedInitInstalledNothing ==
    \A i, j \in DOMAIN outbox :
        /\ outbox[i].type = "ERROR"
        /\ IsInit(trace[i].rid)
        /\ trace[j].rid = trace[i].rid
        => outbox[j].type /= "MODEL_LOADED"

C20_SessionChangesOnlyOnLoad ==
    []C20_FailedInitInstalledNothing /\ [][C20_Step]_vars

\* Witness of C20: a session was loaded, an INIT that was sent after its
\* MODEL_LOADED ended with the load ERROR, and that session is still active.
C20_Witness ==
    \E i, j \in DOMAIN outbox :
        /\ i < j
        /\ outbox[i].type = "MODEL_LOADED"
        /\ outbox[j] = LoadErrorMsg
        /\ trace[j].rid > trace[i].at
        /\ session = trace[i].created

====
